---- MODULE Spec2Model ----
(***************************************************************************)
(* z32: encoding of a bit prefix of a byte buffer into z-base32            *)
(* (src/src/lib.rs).  encode() is modelled as the loop it is: one step per *)
(* iteration of `for p in (0..bits).step_by(5)`, with Rust's bounds-checked *)
(* indexing (a panic) and u8 arithmetic made explicit.                     *)
(***************************************************************************)
EXTENDS Integers, Sequences, FiniteSets, TLC

\* ---------------------------------------------------------------- bounds
\* Longest enumerated buffer, in bytes.
MaxLen == 3
\* How far past 8 * len(buf) the requested bit count may go.
ExtraBits == 7

\* Byte values the enumerated buffers are built from: all-zero, all-one,
\* a lone top bit, a lone bottom bit and two complementary bit patterns.
ByteVals == {0, 1, 90, 128, 165, 255}

\* The input of test::basic and of the doc examples:
\* "The quick brown fox jumps over the lazy dog. " followed by U+1F440, UTF-8.
TestInput ==
  << 84, 104, 101, 32, 113, 117, 105, 99, 107, 32, 98, 114, 111, 119, 110,
     32, 102, 111, 120, 32, 106, 117, 109, 112, 115, 32, 111, 118, 101, 114,
     32, 116, 104, 101, 32, 108, 97, 122, 121, 32, 100, 111, 103, 46, 32,
     240, 159, 145, 128 >>

RECURSIVE SeqsUpTo(_)
SeqsUpTo(n) ==
  IF n = 0 THEN { <<>> }
  ELSE LET shorter == SeqsUpTo(n - 1)
       IN  shorter \cup { Append(b, v) : b \in { x \in shorter : Len(x) = n - 1 },
                                         v \in ByteVals }

Buffers == SeqsUpTo(MaxLen) \cup { TestInput }

\* ------------------------------------------------------------ the program
\* The z-base32 alphabet table, index 0 first.
ALPHABET_rfc4648 ==
  << "a", "b", "c", "d", "e", "f", "g", "h", "i", "j", "k", "l", "m", "n", "o", "p",
     "q", "r", "s", "t", "u", "v", "w", "x", "y", "z", "2", "3", "4", "5", "6", "7" >>

ALPHABET ==
  << "y", "b", "n", "d", "r", "f", "g", "8", "e", "j", "k", "m", "c", "p", "q", "x",
     "o", "t", "1", "u", "w", "i", "s", "z", "a", "3", "4", "5", "h", "7", "6", "9" >>

RECURSIVE Pow2(_)
Pow2(n) == IF n = 0 THEN 1 ELSE 2 * Pow2(n - 1)

\* u8 >> n
Shr(b, n) == b \div Pow2(n)

\* u8 << n: the bits shifted out of the byte are lost.
ShlU8(b, n) == (b * Pow2(n)) % 256

\* x & 0b11111
Mask5(x) == x % 32

\* a | b
RECURSIVE BitOr(_, _)
BitOr(a, b) ==
  IF a = 0 THEN b
  ELSE IF b = 0 THEN a
  ELSE (IF a % 2 = 1 \/ b % 2 = 1 THEN 1 ELSE 0) + 2 * BitOr(a \div 2, b \div 2)

\* buf[i], for an index the bounds check lets through.
ByteAt(buf, i) == buf[i + 1]

\* The bounds check of buf[i].
InBounds(buf, i) == i < Len(buf)

\* let capacity = if bits % 5 == 0 { bits / 5 } else { bits / 5 + 1 }
Capacity(b) == IF b % 5 = 0 THEN b \div 5 ELSE b \div 5 + 1

\* (0..bits).step_by(5) yields p.
InRange_inclusive(q, b) == q <= b

InRange(q, b) == q < b

\* j <= 3: (buf[i] >> (3 - j)) & 0b11111
SingleByteIndex_shift_j(buf, i, j) == Mask5(Shr(ByteAt(buf, i), j))

SingleByteIndex(buf, i, j) == Mask5(Shr(ByteAt(buf, i), 3 - j))

\* let h = (buf[i] << of) & 0b11111
HighPart_unmasked(buf, i, of) == ShlU8(ByteAt(buf, i), of)

HighPart(buf, i, of) == Mask5(ShlU8(ByteAt(buf, i), of))

\* let l = if i >= buf.len() - 1 { 0 } else { buf[i + 1] >> (8 - of) }
\* The result names the byte indices it indexes the buffer with and whether
\* it panics.  buf.len() - 1 on an empty buffer overflows: the debug build
\* panics there, the release build wraps and then fails the bounds check of
\* buf[i + 1]; the call panics in both.
LowPart_no_guard(buf, i, of) ==
  IF InBounds(buf, i + 1)
  THEN [panic |-> "none", val |-> Shr(ByteAt(buf, i + 1), 8 - of), reads |-> {i + 1}]
  ELSE [panic |-> "buf_index", val |-> 0, reads |-> {i + 1}]

LowPart_guard_len(buf, i, of) ==
  IF i >= Len(buf)
  THEN [panic |-> "none", val |-> 0, reads |-> {}]
  ELSE IF InBounds(buf, i + 1)
  THEN [panic |-> "none", val |-> Shr(ByteAt(buf, i + 1), 8 - of), reads |-> {i + 1}]
  ELSE [panic |-> "buf_index", val |-> 0, reads |-> {i + 1}]

LowPart_zero(buf, i, of) ==
  IF Len(buf) = 0
  THEN [panic |-> "sub_overflow", val |-> 0, reads |-> {}]
  ELSE [panic |-> "none", val |-> 0, reads |-> {}]

LowPart(buf, i, of) ==
  IF Len(buf) = 0
  THEN [panic |-> "sub_overflow", val |-> 0, reads |-> {}]
  ELSE IF i >= Len(buf) - 1
  THEN [panic |-> "none", val |-> 0, reads |-> {}]
  ELSE IF InBounds(buf, i + 1)
  THEN [panic |-> "none", val |-> Shr(ByteAt(buf, i + 1), 8 - of), reads |-> {i + 1}]
  ELSE [panic |-> "buf_index", val |-> 0, reads |-> {i + 1}]

\* ALPHABET[idx as usize], bounds-checked, and the push of the character.
Lookup(idx, rd) ==
  IF idx < Len(ALPHABET)
  THEN [panic |-> "none", idx |-> idx, reads |-> rd]
  ELSE [panic |-> "alphabet_index", idx |-> idx, reads |-> rd]

\* One iteration of the loop at cursor q, with buf and bits in scope.
LoopBody_bits_as_len(buf, b, q) ==
  LET i == q \div 8
      j == q % 8
  IN  IF ~InBounds(buf, i)
      THEN [panic |-> "buf_index", idx |-> 0, reads |-> {i}]
      ELSE IF j <= 3
      THEN Lookup(SingleByteIndex(buf, i, j), {i})
      ELSE LET of == j - 3
               h  == HighPart(buf, i, of)
               l  == IF i >= b \div 8 - 1
                     THEN [panic |-> "none", val |-> 0, reads |-> {}]
                     ELSE LowPart(buf, i, of)
           IN  IF l.panic # "none"
               THEN [panic |-> l.panic, idx |-> 0, reads |-> {i} \cup l.reads]
               ELSE Lookup(BitOr(h, l.val), {i} \cup l.reads)

LoopBody(buf, b, q) ==
  LET i == q \div 8
      j == q % 8
  IN  IF ~InBounds(buf, i)
      THEN [panic |-> "buf_index", idx |-> 0, reads |-> {i}]
      ELSE IF j <= 3
      THEN Lookup(SingleByteIndex(buf, i, j), {i})
      ELSE LET of == j - 3
               h  == HighPart(buf, i, of)
               l  == LowPart(buf, i, of)
           IN  IF l.panic # "none"
               THEN [panic |-> l.panic, idx |-> 0, reads |-> {i} \cup l.reads]
               ELSE Lookup(BitOr(h, l.val), {i} \cup l.reads)

\* The cursor positions (0..bits).step_by(5) yields.
Cursors(b) == { q \in 0 .. b : q % 5 = 0 /\ InRange(q, b) }

\* encode(buf, bits) as a function: the loop run from cursor 0 until the
\* range is exhausted or an iteration panics, s being what was pushed.
encode(buf, b) ==
  LET bad   == { q \in Cursors(b) : LoopBody(buf, b, q).panic # "none" }
      first == CHOOSE q \in bad : \A r \in bad : q <= r
      n     == IF bad = {} THEN Cardinality(Cursors(b)) ELSE first \div 5
  IN  [ panic |-> IF bad = {} THEN "none" ELSE LoopBody(buf, b, first).panic,
        out   |-> [ k \in 1 .. n |-> ALPHABET[LoopBody(buf, b, 5 * (k - 1)).idx + 1] ] ]

\* encode(buf, buf.len() * 8)
encode_full_bytes(buf) == encode(buf, Len(buf) * 8)

\* ------------------------------------------------------------------ state
VARIABLES
  buf,       \* the caller's buffer
  bits,      \* the bits argument of the running call
  fn,        \* the entry point called: "encode" or "encode_full_bytes"
  capacity,  \* Vec::with_capacity argument
  p,         \* the loop cursor
  s,         \* the characters pushed so far
  idxs,      \* the table indices computed so far, one per iteration
  reads,     \* the buffer indices the call has indexed buf with
  panic,     \* "none", or why the call panicked
  pc         \* "idle", "loop", "done", "panicked"

vars == << buf, bits, fn, capacity, p, s, idxs, reads, panic, pc >>

Init ==
  /\ buf \in Buffers
  /\ bits = 0
  /\ fn = "none"
  /\ capacity = 0
  /\ p = 0
  /\ s = <<>>
  /\ idxs = <<>>
  /\ reads = {}
  /\ panic = "none"
  /\ pc = "idle"

Enter(name, b) ==
  /\ pc = "idle"
  /\ fn' = name
  /\ bits' = b
  /\ capacity' = Capacity(b)
  /\ p' = 0
  /\ s' = <<>>
  /\ idxs' = <<>>
  /\ reads' = {}
  /\ panic' = "none"
  /\ pc' = "loop"
  /\ UNCHANGED buf

\* A caller calls encode(buf, b).
CallEncode == \E b \in 0 .. (8 * Len(buf) + ExtraBits) : Enter("encode", b)

\* A caller calls encode_full_bytes(buf).
CallEncodeFullBytes == Enter("encode_full_bytes", Len(buf) * 8)

\* An iteration that pushes a character.
LoopPush ==
  /\ pc = "loop"
  /\ InRange(p, bits)
  /\ LET r == LoopBody(buf, bits, p)
     IN  /\ r.panic = "none"
         /\ s' = Append(s, ALPHABET[r.idx + 1])
         /\ idxs' = Append(idxs, r.idx)
         /\ reads' = reads \cup r.reads
  /\ p' = p + 5
  /\ UNCHANGED << buf, bits, fn, capacity, panic, pc >>

\* An iteration that panics.
LoopPanic ==
  /\ pc = "loop"
  /\ InRange(p, bits)
  /\ LET r == LoopBody(buf, bits, p)
     IN  /\ r.panic # "none"
         /\ panic' = r.panic
         /\ reads' = reads \cup r.reads
         /\ idxs' = IF r.panic = "alphabet_index" THEN Append(idxs, r.idx) ELSE idxs
  /\ pc' = "panicked"
  /\ UNCHANGED << buf, bits, fn, capacity, p, s >>

\* The range is exhausted: String::from_utf8_unchecked(s) is returned.
Return ==
  /\ pc = "loop"
  /\ ~InRange(p, bits)
  /\ pc' = "done"
  /\ UNCHANGED << buf, bits, fn, capacity, p, s, idxs, reads, panic >>

Next == CallEncode \/ CallEncodeFullBytes \/ LoopPush \/ LoopPanic \/ Return

Spec == Init /\ [][Next]_vars

TypeOK ==
  /\ buf \in Buffers
  /\ bits \in Nat
  /\ pc \in {"idle", "loop", "done", "panicked"}
  /\ panic \in {"none", "buf_index", "alphabet_index", "sub_overflow"}
  /\ (pc = "panicked") = (panic # "none")
  /\ Len(idxs) >= Len(s)

\* ----------------------------------------------------------- properties
\* The alphabet the encoding is specified with, "ybndrfg8ejkmcpqxot1uwisza345h769".
ZBase32Table ==
  << "y", "b", "n", "d", "r", "f", "g", "8", "e", "j", "k", "m", "c", "p", "q", "x",
     "o", "t", "1", "u", "w", "i", "s", "z", "a", "3", "4", "5", "h", "7", "6", "9" >>

ZBase32Chars == { ZBase32Table[v] : v \in 1 .. 32 }

\* ceil(n / 5)
CeilDiv5(n) == (n + 4) \div 5

\* Bit position q of the buffer, most significant bit of each byte first;
\* positions past the end of the buffer read as 0.
BitAt(b, q) ==
  IF q >= 8 * Len(b) THEN 0 ELSE (b[q \div 8 + 1] \div Pow2(7 - (q % 8))) % 2

\* The 5-bit value of bit positions 5k .. 5k+4.
GroupValue(b, k) ==
  16 * BitAt(b, 5 * k) + 8 * BitAt(b, 5 * k + 1) + 4 * BitAt(b, 5 * k + 2)
    + 2 * BitAt(b, 5 * k + 3) + BitAt(b, 5 * k + 4)

IsPrefix(a, b) == Len(a) <= Len(b) /\ \A k \in 1 .. Len(a) : a[k] = b[k]

Valid == bits <= 8 * Len(buf)

\* The largest bits for which no cursor position lies past the buffer.
CursorBound(b) == 5 * CeilDiv5(8 * Len(b))

C2_PanicsWhenTooShort == ~(pc = "done" /\ bits > 8 * Len(buf))

\* C3: on valid input with bits not a multiple of 5, the low 5 - (bits mod 5)
\* bits of the index of the last character are 0.
C3_FinalGroupZeroPadded ==
  (pc = "done" /\ Valid /\ bits % 5 # 0) =>
     idxs[Len(idxs)] % Pow2(5 - (bits % 5)) = 0

\* C4: on valid input the returned string has ceil(bits / 5) characters; it
\* is empty for bits = 0, and encode_full_bytes returns ceil(8 * len / 5).
C4_Length ==
  /\ (pc = "done" /\ Valid) => Len(s) = CeilDiv5(bits)
  /\ (pc = "done" /\ bits = 0) => s = <<>>
  /\ (pc = "done" /\ fn = "encode_full_bytes") => Len(s) = CeilDiv5(8 * Len(buf))

C4_Witness ==
  pc = "done" /\ fn = "encode" /\ Valid /\ bits % 5 = 3 /\ Len(s) = 5

\* C5: on valid input no iteration panics, the buffer is only indexed below
\* its length, and the cursor stops within one step of bits;
\* encode_full_bytes never panics.
C5_NoFailOnValid ==
  /\ (pc # "idle" /\ Valid) =>
        /\ panic = "none"
        /\ pc # "panicked"
        /\ reads \subseteq 0 .. (Len(buf) - 1)
        /\ p < bits + 5
        /\ (pc = "loop" /\ InRange(p, bits) => LoopBody(buf, bits, p).panic = "none")
  /\ fn = "encode_full_bytes" => pc # "panicked"

C5_Witness ==
  pc = "done" /\ fn = "encode_full_bytes" /\ Len(buf) = 2 /\ reads = {0, 1} /\ p = 20

\* C6: every table index computed, on either branch, is in 0 .. 31, the table
\* lookup never fails and every character pushed is an alphabet character.
C6_AlphabetClosure ==
  /\ \A k \in 1 .. Len(idxs) : idxs[k] \in 0 .. 31
  /\ panic # "alphabet_index"
  /\ \A k \in 1 .. Len(s) : s[k] \in ZBase32Chars

C6_Witness ==
  pc = "done" /\ buf = << 255, 255 >> /\ bits = 16 /\ idxs = << 31, 31, 31, 16 >>

\* C7: for bits1 < bits2, both multiples of 5 and both within the buffer,
\* encode(buf, bits1) is a prefix of encode(buf, bits2).
C7_PrefixConsistency ==
  (pc = "done" /\ Valid /\ bits % 5 = 0) =>
     \A b1 \in { x \in 0 .. (bits - 1) : x % 5 = 0 } :
        LET e == encode(buf, b1)
        IN  e.panic = "none" /\ Len(e.out) = b1 \div 5 /\ IsPrefix(e.out, s)

C7_Witness ==
  pc = "done" /\ fn = "encode" /\ buf = << 165, 255, 90 >> /\ bits = 20 /\ Len(s) = 4

\* C8: the test input with bits = 64 encodes to "ktwgkedtqiwsg"; the 13th
\* index is the low 4 bits of byte 7 followed by the top bit of byte 8.
C8_ConcreteVector ==
  (pc = "done" /\ buf = TestInput /\ bits = 64) =>
     /\ s = << "k", "t", "w", "g", "k", "e", "d", "t", "q", "i", "w", "s", "g" >>
     /\ idxs[13] = 2 * (buf[8] % 16) + buf[9] \div 128
     /\ 8 \in reads

C8_Witness ==
  pc = "done" /\ fn = "encode" /\ buf = TestInput /\ bits = 64 /\ Len(s) = 13

\* The table index of an alphabet character.
IndexOf(c) == CHOOSE v \in 0 .. 31 : ZBase32Table[v + 1] = c

\* Bit q of the bit stream a string spells, 5 bits per character, MSB first.
StreamBit(str, q) == (IndexOf(str[q \div 5 + 1]) \div Pow2(4 - (q % 5))) % 2

\* The whole bytes a string spells: floor(5 * len / 8) of them.
Decode(str) ==
  [ m \in 1 .. ((5 * Len(str)) \div 8) |->
      128 * StreamBit(str, 8 * (m - 1))     + 64 * StreamBit(str, 8 * (m - 1) + 1)
    + 32  * StreamBit(str, 8 * (m - 1) + 2) + 16 * StreamBit(str, 8 * (m - 1) + 3)
    + 8   * StreamBit(str, 8 * (m - 1) + 4) + 4  * StreamBit(str, 8 * (m - 1) + 5)
    + 2   * StreamBit(str, 8 * (m - 1) + 6) + StreamBit(str, 8 * (m - 1) + 7) ]

\* C9: encode_full_bytes is injective: it has a left inverse, i.e. the buffer,
\* whatever its length, is recovered from the returned string alone, so two
\* different buffers never encode to the same string.
C9_FullBytesInjective ==
  (pc = "done" /\ fn = "encode_full_bytes") => Decode(s) = buf

C9_Witness ==
  pc = "done" /\ fn = "encode_full_bytes" /\ buf = << 0, 0, 1 >> /\ Len(s) = 5

====
